---- MODULE Spec2Model ----
(***************************************************************************)
(* cap-stream-utils: destination resolution (utils.ts), the stream         *)
(* accumulator processHttpPassthrough (utils.ts) and the fetch / send      *)
(* adapters (stream.ts).  One behaviour of the model is one call of one    *)
(* exported function, followed to the point where its promise has settled  *)
(* and the byte streams it attached have stopped.                          *)
(***************************************************************************)
EXTENDS Integers, Sequences, FiniteSets, TLC

\* ------------------------------------------------------------------ bounds
\* Largest number of bytes the remote response stream emits in one call.
MaxBytes == 3

\* Byte values carried by the streams.
Bytes == {0, 255}

\* ------------------------------------------------------- program constants
Undef == "undefined"

ERR_NO_CONFIG == "Failed to find requested external service in config"
ERR_INVALID_LOCAL_AUTH == "Unsupported local authentication style"
ERR_NO_VALID_URL == "Invalid URL provided in service config"
BASIC_AUTH == "BasicAuthentication"

STREAM_HTTP_SEND_METHOD == "PUT"
STREAM_HTTP_FETCH_METHOD == "GET"

ERR_FETCH_FAILED == "Failed to handle proxy stream to remote service"
ERR_SEND_FAILED == "Failed to stream data to remote service"
ERR_STREAM_REJECTED == "External service rejected the incoming stream"
ERR_DESTINATION_RETRIEVAL == "Failed to find destination information to send request"

\* ------------------------------------------------------------ environment
\* The error a failed lookup in the destination directory raises
\* (getDestination of the connectivity SDK rejects with its own error).
DirectoryError == "destination directory lookup failed"

\* What a successful lookup in the destination directory returns.
DirectoryDestination ==
  [url |-> "https://directory.example/price", authentication |-> "OAuth2ClientCredentials",
   username |-> Undef, password |-> Undef]

NoDestination ==
  [url |-> Undef, authentication |-> Undef, username |-> Undef, password |-> Undef]

\* Response statuses the transport can deliver; the edges of [200,300) are in.
Statuses == {199, 200, 204, 299, 300, 404}

\* A rejected transport call either never got a response ("connection") or
\* carries the status of the response the transport itself refused.
NoStatus == -1
ThrowCauses == {NoStatus, 404, 503}

ContentTypes == {"image/png", "application/pdf"}

Filenames == {Undef, "", "report.pdf"}

\* ExternalServiceConfig as found under cds.env.requires[externalService].
\* exists = FALSE is a service name with no entry; hasCredentials = FALSE an
\* entry without a credentials object.
ExternalServiceConfig(e, c, d, a, u, un, pw) ==
  [exists |-> e, hasCredentials |-> c, destination |-> d, authentication |-> a,
   url |-> u, username |-> un, password |-> pw]

AbsentConfig == ExternalServiceConfig(FALSE, FALSE, Undef, Undef, Undef, Undef, Undef)

NoCredentialsConfig == ExternalServiceConfig(TRUE, FALSE, Undef, Undef, Undef, Undef, Undef)

\* Every shape of configuration entry over a small alphabet of field values.
AllConfigs ==
  {AbsentConfig, NoCredentialsConfig} \cup
  { ExternalServiceConfig(TRUE, TRUE, d, a, u, un, pw) :
      d \in {Undef, "", "priceDest"},
      a \in {Undef, "Basic", BASIC_AUTH, "OAuth2ClientCredentials"},
      u \in {Undef, "", "https://remote.example/odata"},
      un \in {Undef, "alice"},
      pw \in {Undef, "s3cret"} }

\* The entries of one deployment's cds.env.requires, plus a name with no entry.
SampleConfigs ==
  { AbsentConfig,
    NoCredentialsConfig,
    ExternalServiceConfig(TRUE, TRUE, "priceDest", Undef, Undef, Undef, Undef),
    ExternalServiceConfig(TRUE, TRUE, "priceDest", "OAuth2ClientCredentials", "", "alice", Undef),
    ExternalServiceConfig(TRUE, TRUE, Undef, "Basic", "https://remote.example/odata", "alice", "s3cret"),
    ExternalServiceConfig(TRUE, TRUE, Undef, BASIC_AUTH, "", "alice", "s3cret"),
    ExternalServiceConfig(TRUE, TRUE, Undef, BASIC_AUTH, "https://remote.example/odata", "alice", "s3cret"),
    ExternalServiceConfig(TRUE, TRUE, "", BASIC_AUTH, "https://remote.example/odata", Undef, "s3cret") }

\* The exported entry points (index.ts) and the resolver on its own.
FetchAdapters == {"directProxy", "throughPipe", "toBuffer", "toMediaReadResult"}
DrainingAdapters == {"throughPipe", "toBuffer", "toMediaReadResult"}
FetchOps == FetchAdapters \cup {"fetch"}
Ops == FetchOps \cup {"send"}

VARIABLES
  op,          \* the function called
  extCfg,      \* cds.env.requires[externalService]
  filename,    \* streamMediaFromRemoteThroughPipe's optional filename
  pc,          \* where the async call is suspended
  destResult,  \* how getDestinationInformation settled
  dirCalls,    \* lookups sent to the destination directory
  httpCalls,   \* calls of executeHttpRequest
  request,     \* method of the last outbound request
  transport,   \* how executeHttpRequest settled
  response,    \* the HttpResponse (status, content-type header)
  srcState,    \* response.data: none / readable / ended / errored
  srcBytes,    \* bytes response.data has emitted so far
  nChunks,     \* number of 'data' events response.data has emitted
  pipeDest,    \* where response.data is piped: none / relay / res
  relayBuf,    \* chunks written to the PassThrough and not yet emitted by it
  relayEnded,  \* end() was called on the PassThrough
  chunks,      \* processHttpPassthrough's accumulator
  drain,       \* processHttpPassthrough's promise
  buf,         \* the buffer that promise resolved with
  resHeaders,  \* req.res headers
  resBody,     \* bytes written to req.res
  resEnded,    \* req.res.end() was called
  result       \* how the call settled for its caller

vars == <<op, extCfg, filename, pc, destResult, dirCalls, httpCalls, request,
          transport, response, srcState, srcBytes, nChunks, pipeDest, relayBuf,
          relayEnded, chunks, drain, buf, resHeaders, resBody, resEnded, result>>

\* ------------------------------------------------------------ result shapes
NoResult == [kind |-> "pending", msg |-> Undef, shape |-> "none", buf |-> <<>>,
             ctype |-> Undef, dest |-> NoDestination, status |-> NoStatus]

\* A rejected promise: new Error(msg), or reject() with no value (msg = Undef).
Failure(m) == [NoResult EXCEPT !.kind = "err", !.msg = m]

Success(s) == [NoResult EXCEPT !.kind = "ok", !.shape = s]

NoSettlement == [kind |-> "none", msg |-> Undef, dest |-> NoDestination]

NoTransport == [outcome |-> "none", status |-> NoStatus]

NoResponse == [status |-> NoStatus, contentType |-> Undef]

NoHeaders == [contentType |-> Undef, contentDisposition |-> Undef]

\* JavaScript truthiness of an optional string: undefined and "" are falsy.
Truthy(s) == s # Undef /\ s # ""

\* ------------------------------------------- utils.ts: destination resolver
\* extCfg.credentials?.f : undefined when there is no credentials object.
Cred(cfg, f) == IF cfg.hasCredentials THEN cfg[f] ELSE Undef

\* The resolver without its guard for a missing entry.
NoConfigSkipped(cfg) == FALSE

\* if (!extCfg)
NoConfig(cfg) == ~cfg.exists

\* A resolver that prefers an inline URL to a named destination.
InlineUrlFirst(cfg) ==
  Truthy(Cred(cfg, "destination")) /\ ~Truthy(Cred(cfg, "url"))

\* if (extCfg.credentials?.destination)
UsesRemoteDestination(cfg) == Truthy(Cred(cfg, "destination"))

\* A resolver that accepts any authentication starting with "Basic".
IsBasicAuthByPrefix(cfg) == Cred(cfg, "authentication") \in {"Basic", BASIC_AUTH}

\* extCfg?.credentials?.authentication !== BASIC_AUTH, negated
IsBasicAuth(cfg) == Cred(cfg, "authentication") = BASIC_AUTH

\* The object literal getDestinationInformation returns for an inline entry.
InlineDestination(cfg) ==
  [url |-> cfg.url, authentication |-> BASIC_AUTH,
   username |-> cfg.username, password |-> cfg.password]

\* getDestinationInformation up to its first suspension: it throws, returns
\* the inline destination, or awaits loadRemoteDestination(destination).
GetDestinationInformationStep(cfg) ==
  IF NoConfig(cfg)
    THEN [kind |-> "throw", msg |-> ERR_NO_CONFIG, dest |-> NoDestination]
  ELSE IF UsesRemoteDestination(cfg)
    THEN [kind |-> "lookup", msg |-> Undef, dest |-> NoDestination]
  ELSE IF ~IsBasicAuth(cfg)
    THEN [kind |-> "throw", msg |-> ERR_INVALID_LOCAL_AUTH, dest |-> NoDestination]
  ELSE IF ~Truthy(Cred(cfg, "url"))
    THEN [kind |-> "throw", msg |-> ERR_NO_VALID_URL, dest |-> NoDestination]
  ELSE [kind |-> "return", msg |-> Undef, dest |-> InlineDestination(cfg)]

\* loadRemoteDestination: the directory's answer is returned as it is, and its
\* rejection propagates as it is (no catch in utils.ts).
LoadRemoteDestination(ok, d) ==
  IF ok THEN [kind |-> "ok", msg |-> Undef, dest |-> d]
        ELSE [kind |-> "err", msg |-> DirectoryError, dest |-> NoDestination]

\* ------------------------------------------------ stream.ts: request stage
\* An adapter that lets the resolver's own error through.
ResolutionFailureUnwrapped(dr) == Failure(dr.msg)

\* .catch(() => { throw new Error(ERR_DESTINATION_RETRIEVAL) }) on the resolver
ResolutionFailure(dr) == Failure(ERR_DESTINATION_RETRIEVAL)

\* .catch(() => { throw new Error(...) }) on executeHttpRequest
TransportFailure(o) ==
  Failure(IF o = "send" THEN ERR_SEND_FAILED ELSE ERR_FETCH_FAILED)

\* requestConfig.method
RequestMethod(o) ==
  IF o = "send" THEN STREAM_HTTP_SEND_METHOD ELSE STREAM_HTTP_FETCH_METHOD

\* response.status < 200 || response.status >= 300
StatusRejected(s) == s < 200 \/ s >= 300

\* What happens in the caller once getDestinationInformation has settled as
\* dr: the resolver called directly hands dr to its caller; the adapters
\* re-wrap a rejection, and otherwise call executeHttpRequest.
Resolved(dr) ==
  /\ destResult' = dr
  /\ IF op = "resolve"
       THEN /\ result' = IF dr.kind = "err" THEN Failure(dr.msg)
                         ELSE [Success("destination") EXCEPT !.dest = dr.dest]
            /\ pc' = "done"
            /\ UNCHANGED <<httpCalls, request>>
     ELSE IF dr.kind = "err"
       THEN /\ result' = ResolutionFailure(dr)
            /\ pc' = "done"
            /\ UNCHANGED <<httpCalls, request>>
     ELSE /\ httpCalls' = httpCalls + 1
          /\ request' = RequestMethod(op)
          /\ pc' = "requesting"
          /\ UNCHANGED result

streamVars == <<srcState, srcBytes, nChunks, pipeDest, relayBuf, relayEnded,
                chunks, drain, buf, resHeaders, resBody, resEnded>>

\* getDestinationInformation runs to its throw, its return, or its await of
\* the directory lookup.
GetDestinationInformation ==
  /\ pc = "start"
  /\ LET d == GetDestinationInformationStep(extCfg) IN
       CASE d.kind = "throw" ->
              /\ Resolved([kind |-> "err", msg |-> d.msg, dest |-> NoDestination])
              /\ UNCHANGED dirCalls
         [] d.kind = "return" ->
              /\ Resolved([kind |-> "ok", msg |-> Undef, dest |-> d.dest])
              /\ UNCHANGED dirCalls
         [] d.kind = "lookup" ->
              /\ dirCalls' = dirCalls + 1
              /\ pc' = "lookup"
              /\ UNCHANGED <<destResult, result, httpCalls, request>>
  /\ UNCHANGED <<op, extCfg, filename, transport, response>>
  /\ UNCHANGED streamVars

\* getDestination resolves with the destination the directory holds.
LookupReturns ==
  /\ pc = "lookup"
  /\ Resolved(LoadRemoteDestination(TRUE, DirectoryDestination))
  /\ UNCHANGED <<op, extCfg, filename, dirCalls, transport, response>>
  /\ UNCHANGED streamVars

\* getDestination rejects.
LookupThrows ==
  /\ pc = "lookup"
  /\ Resolved(LoadRemoteDestination(FALSE, NoDestination))
  /\ UNCHANGED <<op, extCfg, filename, dirCalls, transport, response>>
  /\ UNCHANGED streamVars

\* -------------------------------------------------- byte streams (Node.js)
RECURSIVE SeqsOfLen(_)
SeqsOfLen(n) ==
  IF n = 0 THEN {<<>>}
  ELSE { <<b>> \o t : b \in Bytes, t \in SeqsOfLen(n - 1) }

\* The chunks response.data can still emit when it has emitted k bytes.
ChunksAfter(k) == UNION { SeqsOfLen(n) : n \in 1..(MaxBytes - k) }

\* An accumulator that puts each new chunk first (unshift for push).
ChunksPushFront(cs, chunk) == <<chunk>> \o cs

\* chunks.push(chunk)
ChunksPush(cs, chunk) == Append(cs, chunk)

\* Buffer.concat(chunks)
RECURSIVE BufferConcat(_)
BufferConcat(cs) ==
  IF cs = <<>> THEN <<>> ELSE Head(cs) \o BufferConcat(Tail(cs))

\* A pipe that writes only the first byte of each chunk.
PipeWriteOneByte(body, chunk) == body \o <<Head(chunk)>>

\* pipe's ondata: dest.write(chunk)
PipeWrite(body, chunk) == body \o chunk

\* res.setHeader(OUTBOUND_CONTENT_TYPE, response.headers[INBOUND_CONTENT_TYPE])
OutboundContentType(resp) == resp.contentType

\* `filename=${filename}` under if (filename)
ContentDisposition(name) == IF Truthy(name) THEN "filename=" \o name ELSE Undef

\* formatMediaResult: a Readable that yields data and then ends, tagged with
\* the mime type.
FormatMediaResult(data, mimetype) ==
  [Success("envelope") EXCEPT !.buf = data, !.ctype = mimetype]

\* executeHttpRequest rejects.
TransportThrows(cause) ==
  /\ pc = "requesting"
  /\ transport' = [outcome |-> "threw", status |-> cause]
  /\ result' = TransportFailure(op)
  /\ pc' = "done"
  /\ UNCHANGED <<op, extCfg, filename, destResult, dirCalls, httpCalls, request, response>>
  /\ UNCHANGED streamVars

\* executeHttpRequest resolves with a response of status s; the caller runs
\* on to its next suspension or to its return.
TransportReturns(s, ct) ==
  /\ pc = "requesting"
  /\ transport' = [outcome |-> "returned", status |-> s]
  /\ response' = [status |-> s, contentType |-> ct]
  /\ CASE op = "send" ->
            /\ result' = IF StatusRejected(s) THEN Failure(ERR_STREAM_REJECTED)
                         ELSE Success("void")
            /\ pc' = "done"
            /\ UNCHANGED streamVars
       [] op = "fetch" ->
            /\ result' = [Success("response") EXCEPT !.status = s, !.ctype = ct]
            /\ pc' = "done"
            /\ srcState' = "readable"
            /\ UNCHANGED <<srcBytes, nChunks, pipeDest, relayBuf, relayEnded, chunks,
                           drain, buf, resHeaders, resBody, resEnded>>
       [] op = "directProxy" ->
            /\ resHeaders' = [resHeaders EXCEPT !.contentType = OutboundContentType(response')]
            /\ pipeDest' = "res"
            /\ result' = Success("req")
            /\ pc' = "done"
            /\ srcState' = "readable"
            /\ UNCHANGED <<srcBytes, nChunks, relayBuf, relayEnded, chunks, drain, buf,
                           resBody, resEnded>>
       [] op \in DrainingAdapters ->
            /\ drain' = "pending"
            /\ pipeDest' = "relay"
            /\ pc' = "draining"
            /\ srcState' = "readable"
            /\ UNCHANGED <<result, srcBytes, nChunks, relayBuf, relayEnded, chunks, buf,
                           resHeaders, resBody, resEnded>>
  /\ UNCHANGED <<op, extCfg, filename, destResult, dirCalls, httpCalls, request>>

\* response.data emits 'data': pipe's ondata writes the chunk to the
\* destination it is piped to.
SourceData(chunk) ==
  /\ srcState = "readable"
  /\ pipeDest # "none"
  /\ srcBytes' = srcBytes \o chunk
  /\ nChunks' = nChunks + 1
  /\ IF pipeDest = "relay"
       THEN /\ relayBuf' = Append(relayBuf, chunk)
            /\ UNCHANGED resBody
       ELSE /\ resBody' = PipeWrite(resBody, chunk)
            /\ UNCHANGED relayBuf
  /\ UNCHANGED <<op, extCfg, filename, pc, destResult, dirCalls, httpCalls, request,
                 transport, response, srcState, pipeDest, relayEnded, chunks, drain,
                 buf, resHeaders, resEnded, result>>

\* response.data emits 'end': pipe's onend calls dest.end().
SourceEnd ==
  /\ srcState = "readable"
  /\ pipeDest # "none"
  /\ srcState' = "ended"
  /\ pipeDest' = "none"
  /\ IF pipeDest = "relay"
       THEN relayEnded' = TRUE /\ UNCHANGED resEnded
       ELSE resEnded' = TRUE /\ UNCHANGED relayEnded
  /\ UNCHANGED <<op, extCfg, filename, pc, destResult, dirCalls, httpCalls, request,
                 transport, response, srcBytes, nChunks, relayBuf, chunks, drain, buf,
                 resHeaders, resBody, result>>

\* response.data emits 'error'.  pipe() forwards no error to its destination
\* and no listener of this package is registered on response.data, so the
\* destination is neither ended nor failed.
SourceError ==
  /\ srcState = "readable"
  /\ srcState' = "errored"
  /\ UNCHANGED <<op, extCfg, filename, pc, destResult, dirCalls, httpCalls, request,
                 transport, response, srcBytes, nChunks, pipeDest, relayBuf, relayEnded,
                 chunks, drain, buf, resHeaders, resBody, resEnded, result>>

\* stream.on("data"): the PassThrough emits its oldest chunk.
RelayData ==
  /\ drain = "pending"
  /\ relayBuf # <<>>
  /\ chunks' = ChunksPush(chunks, Head(relayBuf))
  /\ relayBuf' = Tail(relayBuf)
  /\ UNCHANGED <<op, extCfg, filename, pc, destResult, dirCalls, httpCalls, request,
                 transport, response, srcState, srcBytes, nChunks, pipeDest, relayEnded,
                 drain, buf, resHeaders, resBody, resEnded, result>>

\* stream.on("end"): the promise resolves with Buffer.concat(chunks) and the
\* adapter that awaited it runs to its return.
RelayEnd ==
  /\ drain = "pending"
  /\ relayEnded
  /\ relayBuf = <<>>
  /\ buf' = BufferConcat(chunks)
  /\ drain' = "resolved"
  /\ pc' = "done"
  /\ CASE op = "toBuffer" ->
            /\ result' = [Success("buffer") EXCEPT !.buf = buf']
            /\ UNCHANGED <<resHeaders, resEnded, pipeDest>>
       [] op = "toMediaReadResult" ->
            /\ result' = FormatMediaResult(buf', OutboundContentType(response))
            /\ UNCHANGED <<resHeaders, resEnded, pipeDest>>
       [] op = "throughPipe" ->
            /\ resHeaders' = [contentType |-> OutboundContentType(response),
                              contentDisposition |-> ContentDisposition(filename)]
            \* response.data.pipe(res): the buffer is not used; a source that
            \* has emitted 'end' gets dest.end() on the next tick
            /\ IF srcState = "ended"
                 THEN resEnded' = TRUE /\ pipeDest' = "none"
                 ELSE pipeDest' = "res" /\ UNCHANGED resEnded
            /\ result' = Success("req")
  /\ UNCHANGED <<op, extCfg, filename, destResult, dirCalls, httpCalls, request,
                 transport, response, srcState, srcBytes, nChunks, relayBuf, relayEnded,
                 chunks, resBody>>

\* stream.on("error"): the PassThrough itself fails; reject() carries no
\* error, and pipe's onerror unpipes the source.
RelayError ==
  /\ drain = "pending"
  /\ drain' = "rejected"
  /\ pipeDest' = "none"
  /\ result' = Failure(Undef)
  /\ pc' = "done"
  /\ UNCHANGED <<op, extCfg, filename, destResult, dirCalls, httpCalls, request,
                 transport, response, srcState, srcBytes, nChunks, relayBuf, relayEnded,
                 chunks, buf, resHeaders, resBody, resEnded>>

\* --------------------------------------------------------- specifications
Quiet ==
  /\ pc = "start"
  /\ destResult = NoSettlement
  /\ dirCalls = 0
  /\ httpCalls = 0
  /\ request = Undef
  /\ transport = NoTransport
  /\ response = NoResponse
  /\ srcState = "none"
  /\ srcBytes = <<>>
  /\ nChunks = 0
  /\ pipeDest = "none"
  /\ relayBuf = <<>>
  /\ relayEnded = FALSE
  /\ chunks = <<>>
  /\ drain = "none"
  /\ buf = <<>>
  /\ resHeaders = NoHeaders
  /\ resBody = <<>>
  /\ resEnded = FALSE
  /\ result = NoResult

\* One call of an exported function for a service of the deployment.
Init ==
  /\ op \in Ops
  /\ extCfg \in SampleConfigs
  /\ filename \in IF op = "throughPipe" THEN Filenames ELSE {Undef}
  /\ Quiet

Next ==
  \/ GetDestinationInformation
  \/ LookupReturns
  \/ LookupThrows
  \/ \E cause \in ThrowCauses : TransportThrows(cause)
  \/ \E s \in Statuses, ct \in ContentTypes : TransportReturns(s, ct)
  \/ \E chunk \in ChunksAfter(Len(srcBytes)) : SourceData(chunk)
  \/ SourceEnd
  \/ SourceError
  \/ RelayData
  \/ RelayEnd
  \/ RelayError

Spec == Init /\ [][Next]_vars

\* One call of getDestinationInformation for any configuration entry.
InitResolve ==
  /\ op = "resolve"
  /\ extCfg \in AllConfigs
  /\ filename = Undef
  /\ Quiet

NextResolve ==
  \/ GetDestinationInformation
  \/ LookupReturns
  \/ LookupThrows

SpecResolve == InitResolve /\ [][NextResolve]_vars

\* ------------------------------------------------------------------ claims
IsPrefix(a, b) == Len(a) <= Len(b) /\ SubSeq(b, 1, Len(a)) = a

\* C1: streamMediaToRemoteService, destination resolved: a response status in
\* [200,300) completes the call; every status outside it fails the call with
\* ERR_STREAM_REJECTED whether executeHttpRequest returned that response or
\* rejected with it; a connection failure (no response) fails the call with
\* ERR_SEND_FAILED.
SendStatusDecidesOutcome ==
  (op = "send" /\ transport.outcome # "none") =>
    LET s == transport.status IN
      /\ (s # NoStatus /\ 200 <= s /\ s < 300) => result.kind = "ok"
      /\ (s # NoStatus /\ ~(200 <= s /\ s < 300)) => result = Failure(ERR_STREAM_REJECTED)
      /\ s = NoStatus => result = Failure(ERR_SEND_FAILED)

\* C2: streamMediaFromRemote: a failed resolution fails the call with
\* ERR_DESTINATION_RETRIEVAL and no request is issued; a rejected
\* executeHttpRequest fails it with ERR_FETCH_FAILED; a returned response is
\* the result, whatever its status.
FetchWrapsFailures ==
  op \in FetchOps =>
    /\ destResult.kind = "err" =>
         /\ result = Failure(ERR_DESTINATION_RETRIEVAL)
         /\ httpCalls = 0
         /\ request = Undef
    /\ transport.outcome = "threw" =>
         /\ destResult.kind = "ok"
         /\ result = Failure(ERR_FETCH_FAILED)
    /\ (op = "fetch" /\ transport.outcome = "returned") =>
         /\ request = "GET"
         /\ result.kind = "ok"
         /\ result.shape = "response"
         /\ result.status = transport.status

FetchReturnsNon2xx ==
  /\ op = "fetch"
  /\ transport.outcome = "returned"
  /\ transport.status = 404
  /\ result.kind = "ok"

\* C3: processHttpPassthrough resolves with exactly the bytes response.data
\* emitted, in order, however they were split into chunks.
DrainYieldsEmittedBytes ==
  drain = "resolved" =>
    /\ buf = srcBytes
    /\ op = "toBuffer" => (result.kind = "ok" /\ result.buf = srcBytes)

DrainOfSeveralChunks ==
  /\ drain = "resolved"
  /\ op = "toBuffer"
  /\ nChunks >= 2
  /\ Len(buf) >= 3
  /\ buf[1] # buf[2]

\* C4: streamMediaFromRemoteThroughPipe: when the adapter has returned, the
\* hosting response has received exactly the bytes of the remote response, and
\* Content-Disposition carries the filename when one was given.
ThroughPipeDeliversBuffer ==
  (op = "throughPipe" /\ result.kind = "ok") =>
    /\ resBody = srcBytes
    /\ Truthy(filename) => resHeaders.contentDisposition = "filename=" \o filename

\* C5: streamMediaFromRemoteServiceDirectProxy: Content-Type is set from the
\* inbound content-type before any body byte; the bytes written to the hosting
\* response are always a prefix of the bytes emitted so far, nothing is held
\* back in an accumulator, and at the end of the remote stream the hosting
\* response holds exactly the emitted bytes and is ended.
DirectProxyForwardsChunks ==
  op = "directProxy" =>
    /\ resBody # <<>> => resHeaders.contentType = response.contentType
    /\ IsPrefix(resBody, srcBytes)
    /\ chunks = <<>> /\ relayBuf = <<>> /\ drain = "none"
    /\ pipeDest = "res" => resBody = srcBytes
    /\ srcState = "ended" => (resBody = srcBytes /\ resEnded)

DirectProxyMidStream ==
  /\ op = "directProxy"
  /\ srcState = "readable"
  /\ nChunks >= 2
  /\ Len(resBody) >= 2
  /\ resBody[1] # resBody[2]
  /\ ~resEnded

\* C6: a service with no configuration entry: getDestinationInformation fails
\* with ERR_NO_CONFIG, and neither a directory lookup nor an HTTP request is
\* ever made.
AbsentServiceFailsWithoutNetwork ==
  ~extCfg.exists =>
    /\ dirCalls = 0
    /\ httpCalls = 0
    /\ pc # "start" =>
         (pc = "done" /\ destResult.kind = "err" /\ destResult.msg = ERR_NO_CONFIG)

AbsentServiceResolved ==
  /\ ~extCfg.exists
  /\ pc = "done"
  /\ result.kind = "err"

\* An inline entry: the service is configured and names no destination.
InlineEntry == extCfg.exists /\ ~Truthy(Cred(extCfg, "destination"))

\* C7 as stated: on an inline entry, authentication other than "Basic" fails
\* with ERR_INVALID_LOCAL_AUTH, else an empty URL fails with ERR_NO_VALID_URL,
\* else {url, authentication: "Basic", username, password} is returned.
InlineDecisionWithBasic ==
  (InlineEntry /\ pc = "done") =>
    IF Cred(extCfg, "authentication") # "Basic"
      THEN result = Failure("Unsupported local authentication style")
    ELSE IF Cred(extCfg, "url") \in {Undef, ""}
      THEN result = Failure("Invalid URL provided in service config")
    ELSE /\ result.kind = "ok"
         /\ result.dest = [url |-> extCfg.url, authentication |-> "Basic",
                           username |-> extCfg.username, password |-> extCfg.password]

\* C7 amended: the same decision with the literal "BasicAuthentication".
InlineDecisionWithBasicAuthentication ==
  (InlineEntry /\ pc = "done") =>
    /\ dirCalls = 0
    /\ IF Cred(extCfg, "authentication") # "BasicAuthentication"
         THEN result = Failure("Unsupported local authentication style")
       ELSE IF Cred(extCfg, "url") \in {Undef, ""}
         THEN result = Failure("Invalid URL provided in service config")
       ELSE /\ result.kind = "ok"
            /\ result.dest = [url |-> extCfg.url, authentication |-> "BasicAuthentication",
                              username |-> extCfg.username, password |-> extCfg.password]

InlineEntryReturned ==
  /\ InlineEntry
  /\ pc = "done"
  /\ result.kind = "ok"
  /\ result.dest.username = "alice"
  /\ result.dest.password = "s3cret"

\* C8 as stated: an entry naming a destination is resolved by the directory
\* whatever its inline fields, and a failed lookup makes
\* getDestinationInformation reject with ERR_DESTINATION_RETRIEVAL.
RemoteFailureIsRetrievalError ==
  (Truthy(Cred(extCfg, "destination")) /\ pc = "done") =>
    /\ dirCalls = 1
    /\ result.kind = "err" => result = Failure(ERR_DESTINATION_RETRIEVAL)

\* C8 amended: an entry naming a destination is resolved by the directory
\* whatever its inline fields (they are never validated), and a failed lookup
\* makes getDestinationInformation reject with the directory's own error.
RemoteFailureIsDirectoryError ==
  (Truthy(Cred(extCfg, "destination")) /\ pc # "start") =>
    /\ dirCalls = 1
    /\ pc = "done" =>
         /\ result.kind = "err" => result = Failure(DirectoryError)
         /\ result.kind = "ok" => result.dest = DirectoryDestination

RemoteLookupFailedDespiteValidInline ==
  /\ extCfg.destination = "priceDest"
  /\ IsBasicAuth(extCfg)
  /\ Truthy(extCfg.url)
  /\ pc = "done"
  /\ result.kind = "err"

\* C9: once response.data has terminated and the PassThrough has nothing left
\* to emit, the promise of processHttpPassthrough has settled: resolved after
\* 'end', rejected after 'error'.
DrainSettlesOnceSourceTerminates ==
  (drain # "none" /\ relayBuf = <<>>) =>
    /\ srcState = "errored" => drain = "rejected"
    /\ (srcState = "ended" /\ ~ENABLED RelayEnd) => drain \in {"resolved", "rejected"}

\* C10: a failure at any stage (resolution, request, remote stream) fails the
\* call, and then nothing has been delivered: no header, no body byte, no
\* buffer, no envelope.
StageFailed ==
  \/ destResult.kind = "err"
  \/ transport.outcome = "threw"
  \/ (op = "send" /\ transport.outcome = "returned" /\ StatusRejected(transport.status))
  \/ drain = "rejected"
  \/ (srcState = "errored" /\ op \in FetchAdapters /\ relayBuf = <<>>)

FailuresSurfaceWithoutPartialResult ==
  (op \in FetchAdapters \cup {"send"} /\ StageFailed) =>
    /\ result.kind = "err"
    /\ resHeaders = NoHeaders
    /\ resBody = <<>>

====
